---- MODULE Spec2Model ----
(***************************************************************************)
(* Keyed lookup structures of src/main.cpp: the unbalanced binary search   *)
(* tree, the red-black tree, the chained hash table and the linear scan,   *)
(* driven the way main() drives them: the structures are constructed, the  *)
(* same record is inserted into each of them, and the same key is searched *)
(* in each of them.                                                        *)
(*                                                                         *)
(* Pointers are indices into an arena of nodes (the sequence `nodes`);     *)
(* `new Node` appends to the arena, NULL is index 0.  A std::string is the *)
(* sequence of its bytes (0..255).  An Object is its id and its name; the  *)
(* field `value` is carried along by every operation and read by none.     *)
(***************************************************************************)
EXTENDS Integers, Sequences, FiniteSets, TLC

VARIABLES data, bst, rbt, ht, status, seen

vars == <<data, bst, rbt, ht, status, seen>>

(***************************************************************************)
(* Bounds of the exploration.                                              *)
(***************************************************************************)
\* every sequence of at most MaxRecords records over the first NumKeys keys
NumKeys == 5
MaxRecords == 5
\* every strictly increasing or strictly decreasing run over the first
\* NumSortedKeys keys, whatever its length
NumSortedKeys == 9
\* bucket counts 0..MaxBuckets
MaxBuckets == 2
\* searches are explored on structures of at most MaxSearchRecords records,
\* for the first NumSearchKeys keys
MaxSearchRecords == 2
NumSearchKeys == 3

KeyPool ==
    << <<98>>, <<>>, <<97>>, <<97, 98>>, <<98, 97>>, <<99>>, <<200>>,
       <<66>>, <<97, 97>>, <<98, 98>>, <<99, 97>>, <<97, 200>> >>

Min(a, b) == IF a < b THEN a ELSE b

Keys == {KeyPool[i] : i \in 1..Min(NumKeys, Len(KeyPool))}

SortedKeys == {KeyPool[i] : i \in 1..Min(NumSortedKeys, Len(KeyPool))}

SearchKeys == {KeyPool[i] : i \in 1..Min(NumSearchKeys, Len(KeyPool))}

AllKeys == Keys \cup SortedKeys

(***************************************************************************)
(* std::string comparison: operator< is lexicographic over the bytes taken *)
(* as unsigned values, a proper prefix being smaller.                      *)
(***************************************************************************)
RECURSIVE StrLess(_, _)
StrLess(a, b) ==
    IF b = <<>> THEN FALSE
    ELSE IF a = <<>> THEN TRUE
    ELSE IF Head(a) < Head(b) THEN TRUE
    ELSE IF Head(b) < Head(a) THEN FALSE
    ELSE StrLess(Tail(a), Tail(b))

NULL == 0

Object(id_, name_) == [id |-> id_, name |-> name_]

(***************************************************************************)
(* linearSearch                                                            *)
(***************************************************************************)
RECURSIVE linearSearch(_, _)
linearSearch(d, key) ==
    IF d = <<>> THEN <<>>
    ELSE IF Head(d).name = key
         THEN <<Head(d)>> \o linearSearch(Tail(d), key)
         ELSE linearSearch(Tail(d), key)

(***************************************************************************)
(* BinarySearchTree                                                        *)
(***************************************************************************)
BSTNode(name, obj) ==
    [key |-> name, values |-> <<obj>>, left |-> NULL, right |-> NULL]

BSTEmpty == [root |-> NULL, nodes |-> <<>>]

\* the loop of insert, from the node cur
RECURSIVE BSTInsertAt(_, _, _)
BSTInsertAt(t, cur, obj) ==
    LET c == t.nodes[cur]
        new == Len(t.nodes) + 1
    IN  IF obj.name = c.key
        THEN [t EXCEPT !.nodes[cur].values = Append(@, obj)]
        ELSE IF StrLess(obj.name, c.key)
        THEN IF c.left = NULL
             THEN [t EXCEPT !.nodes = Append([@ EXCEPT ![cur].left = new],
                                             BSTNode(obj.name, obj))]
             ELSE BSTInsertAt(t, c.left, obj)
        ELSE IF c.right = NULL
             THEN [t EXCEPT !.nodes = Append([@ EXCEPT ![cur].right = new],
                                             BSTNode(obj.name, obj))]
             ELSE BSTInsertAt(t, c.right, obj)

\* BSTInsert as it would be if an equal key went down to the right
RECURSIVE BSTInsertAtNoMerge(_, _, _)
BSTInsertAtNoMerge(t, cur, obj) ==
    LET c == t.nodes[cur]
        new == Len(t.nodes) + 1
    IN  IF StrLess(obj.name, c.key)
        THEN IF c.left = NULL
             THEN [t EXCEPT !.nodes = Append([@ EXCEPT ![cur].left = new],
                                             BSTNode(obj.name, obj))]
             ELSE BSTInsertAtNoMerge(t, c.left, obj)
        ELSE IF c.right = NULL
             THEN [t EXCEPT !.nodes = Append([@ EXCEPT ![cur].right = new],
                                             BSTNode(obj.name, obj))]
             ELSE BSTInsertAtNoMerge(t, c.right, obj)

BSTInsertNoMerge(t, obj) ==
    IF t.root = NULL
    THEN [root |-> Len(t.nodes) + 1,
          nodes |-> Append(t.nodes, BSTNode(obj.name, obj))]
    ELSE BSTInsertAtNoMerge(t, t.root, obj)

\* BSTInsert as it would be if it lifted the right child of a root without
\* a left child above the root, when that child has no left child itself
BSTInsertLifting(t, obj) ==
    IF t.root = NULL
    THEN [root |-> Len(t.nodes) + 1,
          nodes |-> Append(t.nodes, BSTNode(obj.name, obj))]
    ELSE LET r == BSTInsertAt(t, t.root, obj)
             x == r.root
             y == r.nodes[x].right
         IN  IF r.nodes[x].left = NULL /\ y # NULL /\ r.nodes[y].left = NULL
             THEN [root |-> y,
                   nodes |-> [r.nodes EXCEPT ![x].right = NULL, ![y].left = x]]
             ELSE r

BSTInsert(t, obj) ==
    IF t.root = NULL
    THEN [root |-> Len(t.nodes) + 1,
          nodes |-> Append(t.nodes, BSTNode(obj.name, obj))]
    ELSE BSTInsertAt(t, t.root, obj)

\* the loop of search, from the node cur
RECURSIVE BSTSearchFrom(_, _, _)
BSTSearchFrom(t, cur, key) ==
    IF cur = NULL THEN <<>>
    ELSE IF key = t.nodes[cur].key THEN t.nodes[cur].values
    ELSE IF StrLess(key, t.nodes[cur].key)
         THEN BSTSearchFrom(t, t.nodes[cur].left, key)
         ELSE BSTSearchFrom(t, t.nodes[cur].right, key)

\* BSTSearch as it would be if it returned one object of the node
BSTSearchFirst(t, key) ==
    LET r == BSTSearchFrom(t, t.root, key)
    IN  IF r = <<>> THEN r ELSE <<r[1]>>

BSTSearch(t, key) == BSTSearchFrom(t, t.root, key)

(***************************************************************************)
(* RedBlackTree.  Besides root and nodes the tree value carries five       *)
(* observations of the latest insert: the number of rotations it made,     *)
(* the number of passes through the loop body of insertFix, whether        *)
(* insertFix ran, the colour its new Node was constructed with ("NONE"     *)
(* when it constructed no node), and whether a null pointer was            *)
(* dereferenced (the insert stops there).                                  *)
(***************************************************************************)
RED == "RED"

BLACK == "BLACK"

RBTNode(name, obj, c, p) ==
    [key |-> name, values |-> <<obj>>, color |-> c,
     left |-> NULL, right |-> NULL, parent |-> p]

RBTEmpty ==
    [root |-> NULL, nodes |-> <<>>,
     rotations |-> 0, iters |-> 0, fixRan |-> FALSE, created |-> "NONE",
     nullDeref |-> FALSE]

NullDeref(t) == [t EXCEPT !.nullDeref = TRUE]

\* transplant as it would be without the update of v->parent
transplantNoParent(t, u, v) ==
    LET up == t.nodes[u].parent
    IN  IF up = NULL THEN [t EXCEPT !.root = v]
        ELSE IF u = t.nodes[up].left
             THEN [t EXCEPT !.nodes[up].left = v]
             ELSE [t EXCEPT !.nodes[up].right = v]

transplant(t, u, v) ==
    LET up == t.nodes[u].parent
        t1 == IF up = NULL THEN [t EXCEPT !.root = v]
              ELSE IF u = t.nodes[up].left
                   THEN [t EXCEPT !.nodes[up].left = v]
                   ELSE [t EXCEPT !.nodes[up].right = v]
    IN  IF v # NULL
        THEN [t1 EXCEPT !.nodes[v].parent = t1.nodes[u].parent]
        ELSE t1

rotateLeft(t, x) ==
    LET y == t.nodes[x].right
    IN  IF y = NULL THEN NullDeref(t)
        ELSE LET t1 == [t EXCEPT !.nodes[x].right = t.nodes[y].left]
                 yl == t1.nodes[y].left
                 t2 == IF yl # NULL THEN [t1 EXCEPT !.nodes[yl].parent = x]
                       ELSE t1
                 t3 == transplant(t2, x, y)
                 t4 == [t3 EXCEPT !.nodes[y].left = x]
                 t5 == [t4 EXCEPT !.nodes[x].parent = y]
             IN  [t5 EXCEPT !.rotations = @ + 1]

\* rotateRight as it would be without the update of y->right->parent
rotateRightNoReparent(t, x) ==
    LET y == t.nodes[x].left
    IN  IF y = NULL THEN NullDeref(t)
        ELSE LET t1 == [t EXCEPT !.nodes[x].left = t.nodes[y].right]
                 t3 == transplant(t1, x, y)
                 t4 == [t3 EXCEPT !.nodes[y].right = x]
                 t5 == [t4 EXCEPT !.nodes[x].parent = y]
             IN  [t5 EXCEPT !.rotations = @ + 1]

rotateRight(t, x) ==
    LET y == t.nodes[x].left
    IN  IF y = NULL THEN NullDeref(t)
        ELSE LET t1 == [t EXCEPT !.nodes[x].left = t.nodes[y].right]
                 yr == t1.nodes[y].right
                 t2 == IF yr # NULL THEN [t1 EXCEPT !.nodes[yr].parent = x]
                       ELSE t1
                 t3 == transplant(t2, x, y)
                 t4 == [t3 EXCEPT !.nodes[y].right = x]
                 t5 == [t4 EXCEPT !.nodes[x].parent = y]
             IN  [t5 EXCEPT !.rotations = @ + 1]

\* case 1 on either side: p and u BLACK, g RED, n = g
FixRedUncle(t, p, u, g) ==
    LET t1 == [t EXCEPT !.nodes[p].color = BLACK]
        t2 == [t1 EXCEPT !.nodes[u].color = BLACK]
        t3 == [t2 EXCEPT !.nodes[g].color = RED]
    IN  [tree |-> t3, n |-> g]

\* FixLeftBlackUncle as it would be without p->color = BLACK
FixLeftBlackUncleNoRecolor(t, n, p, g) ==
    LET inner == (n = t.nodes[p].right)
        n1 == IF inner THEN p ELSE n
        t1 == IF inner THEN rotateLeft(t, n1) ELSE t
        p1 == IF inner THEN t1.nodes[n1].parent ELSE p
    IN  IF t1.nullDeref \/ p1 = NULL THEN [tree |-> NullDeref(t1), n |-> n1]
        ELSE LET g1 == IF inner THEN t1.nodes[p1].parent ELSE g
             IN  IF g1 = NULL THEN [tree |-> NullDeref(t1), n |-> n1]
                 ELSE LET t3 == [t1 EXCEPT !.nodes[g1].color = RED]
                      IN  [tree |-> rotateRight(t3, g1), n |-> n1]

\* cases 2 and 3, p the left child of g
FixLeftBlackUncle(t, n, p, g) ==
    LET inner == (n = t.nodes[p].right)
        n1 == IF inner THEN p ELSE n
        t1 == IF inner THEN rotateLeft(t, n1) ELSE t
        p1 == IF inner THEN t1.nodes[n1].parent ELSE p
    IN  IF t1.nullDeref \/ p1 = NULL THEN [tree |-> NullDeref(t1), n |-> n1]
        ELSE LET g1 == IF inner THEN t1.nodes[p1].parent ELSE g
             IN  IF g1 = NULL THEN [tree |-> NullDeref(t1), n |-> n1]
                 ELSE LET t2 == [t1 EXCEPT !.nodes[p1].color = BLACK]
                          t3 == [t2 EXCEPT !.nodes[g1].color = RED]
                      IN  [tree |-> rotateRight(t3, g1), n |-> n1]

\* the symmetric cases, p the right child of g
FixRightBlackUncle(t, n, p, g) ==
    LET inner == (n = t.nodes[p].left)
        n1 == IF inner THEN p ELSE n
        t1 == IF inner THEN rotateRight(t, n1) ELSE t
        p1 == IF inner THEN t1.nodes[n1].parent ELSE p
    IN  IF t1.nullDeref \/ p1 = NULL THEN [tree |-> NullDeref(t1), n |-> n1]
        ELSE LET g1 == IF inner THEN t1.nodes[p1].parent ELSE g
             IN  IF g1 = NULL THEN [tree |-> NullDeref(t1), n |-> n1]
                 ELSE LET t2 == [t1 EXCEPT !.nodes[p1].color = BLACK]
                          t3 == [t2 EXCEPT !.nodes[g1].color = RED]
                      IN  [tree |-> rotateLeft(t3, g1), n |-> n1]

\* one pass through the body of the while loop of insertFix
InsertFixBody(t, n) ==
    LET p == t.nodes[n].parent
        g == t.nodes[p].parent
    IN  IF g = NULL THEN [tree |-> NullDeref(t), n |-> n]
        ELSE IF p = t.nodes[g].left
        THEN LET u == t.nodes[g].right
             IN  IF u # NULL /\ t.nodes[u].color = RED
                 THEN FixRedUncle(t, p, u, g)
                 ELSE FixLeftBlackUncle(t, n, p, g)
        ELSE LET u == t.nodes[g].left
             IN  IF u # NULL /\ t.nodes[u].color = RED
                 THEN FixRedUncle(t, p, u, g)
                 ELSE FixRightBlackUncle(t, n, p, g)

\* FixRoot as it would be without the statement
FixRootSkipped(t) == t

\* the statement after the loop: the root is always black
FixRoot(t) == [t EXCEPT !.nodes[t.root].color = BLACK]

RECURSIVE InsertFixLoop(_, _)
InsertFixLoop(t, n) ==
    IF n = t.root THEN FixRoot(t)
    ELSE IF t.nodes[n].parent = NULL THEN NullDeref(t)
    ELSE IF t.nodes[t.nodes[n].parent].color # RED THEN FixRoot(t)
    ELSE LET b == InsertFixBody([t EXCEPT !.iters = @ + 1], n)
         IN  IF b.tree.nullDeref THEN b.tree
             ELSE InsertFixLoop(b.tree, b.n)

insertFix(t, n) == InsertFixLoop([t EXCEPT !.fixRan = TRUE], n)

\* RBTAttach as it would be with the comparison turned round
RBTAttachFlipped(t, parent, obj) ==
    LET node == Len(t.nodes) + 1
        linked == IF StrLess(obj.name, t.nodes[parent].key)
                  THEN [t.nodes EXCEPT ![parent].right = node]
                  ELSE [t.nodes EXCEPT ![parent].left = node]
    IN  [t EXCEPT !.nodes = Append(linked, RBTNode(obj.name, obj, RED, parent)),
                  !.created = RED]

\* RBTAttach as it would be with the node constructed BLACK
RBTAttachBlack(t, parent, obj) ==
    LET node == Len(t.nodes) + 1
        linked == IF StrLess(obj.name, t.nodes[parent].key)
                  THEN [t.nodes EXCEPT ![parent].left = node]
                  ELSE [t.nodes EXCEPT ![parent].right = node]
    IN  [t EXCEPT !.nodes = Append(linked,
                                   RBTNode(obj.name, obj, BLACK, parent)),
                  !.created = BLACK]

\* new Node(obj.name, obj, RED, parent), linked below parent
RBTAttach(t, parent, obj) ==
    LET node == Len(t.nodes) + 1
        linked == IF StrLess(obj.name, t.nodes[parent].key)
                  THEN [t.nodes EXCEPT ![parent].left = node]
                  ELSE [t.nodes EXCEPT ![parent].right = node]
    IN  [t EXCEPT !.nodes = Append(linked, RBTNode(obj.name, obj, RED, parent)),
                  !.created = RED]

\* RBTAttachAndFix as it would be without the call of insertFix
RBTAttachOnly(t, parent, obj) == RBTAttach(t, parent, obj)

RBTAttachAndFix(t, parent, obj) ==
    insertFix(RBTAttach(t, parent, obj), Len(t.nodes) + 1)

\* the descent loop of insert, at the test of cur
RECURSIVE RBTInsertAt(_, _, _, _)
RBTInsertAt(t, cur, parent, obj) ==
    IF cur = NULL THEN RBTAttachAndFix(t, parent, obj)
    ELSE IF obj.name = t.nodes[cur].key
         THEN [t EXCEPT !.nodes[cur].values = Append(@, obj)]
         ELSE RBTInsertAt(t,
                          IF StrLess(obj.name, t.nodes[cur].key)
                          THEN t.nodes[cur].left ELSE t.nodes[cur].right,
                          cur, obj)

\* RBTInsert as it would be if an equal key assigned the record to values
RECURSIVE RBTInsertAtReplace(_, _, _, _)
RBTInsertAtReplace(t, cur, parent, obj) ==
    IF cur = NULL THEN RBTAttachAndFix(t, parent, obj)
    ELSE IF obj.name = t.nodes[cur].key
         THEN [t EXCEPT !.nodes[cur].values = <<obj>>]
         ELSE RBTInsertAtReplace(t,
                                 IF StrLess(obj.name, t.nodes[cur].key)
                                 THEN t.nodes[cur].left ELSE t.nodes[cur].right,
                                 cur, obj)

RBTInsertReplace(t0, obj) ==
    LET t == [t0 EXCEPT !.rotations = 0, !.iters = 0, !.fixRan = FALSE,
                        !.created = "NONE"]
    IN  IF t.root = NULL
        THEN [t EXCEPT !.root = Len(t.nodes) + 1,
                       !.nodes = Append(@, RBTNode(obj.name, obj, BLACK, NULL)),
                       !.created = BLACK]
        ELSE RBTInsertAtReplace(t, t.root, NULL, obj)

\* RBTInsert as it would be if the first node were constructed RED like
\* every other node
RBTInsertRedRoot(t0, obj) ==
    LET t == [t0 EXCEPT !.rotations = 0, !.iters = 0, !.fixRan = FALSE,
                        !.created = "NONE"]
    IN  IF t.root = NULL
        THEN [t EXCEPT !.root = Len(t.nodes) + 1,
                       !.nodes = Append(@, RBTNode(obj.name, obj, RED, NULL)),
                       !.created = RED]
        ELSE RBTInsertAt(t, t.root, NULL, obj)

RBTInsert(t0, obj) ==
    LET t == [t0 EXCEPT !.rotations = 0, !.iters = 0, !.fixRan = FALSE,
                        !.created = "NONE"]
    IN  IF t.root = NULL
        THEN [t EXCEPT !.root = Len(t.nodes) + 1,
                       !.nodes = Append(@, RBTNode(obj.name, obj, BLACK, NULL)),
                       !.created = BLACK]
        ELSE RBTInsertAt(t, t.root, NULL, obj)

RECURSIVE RBTSearchFrom(_, _, _)
RBTSearchFrom(t, cur, key) ==
    IF cur = NULL THEN <<>>
    ELSE IF key = t.nodes[cur].key THEN t.nodes[cur].values
    ELSE IF StrLess(key, t.nodes[cur].key)
         THEN RBTSearchFrom(t, t.nodes[cur].left, key)
         ELSE RBTSearchFrom(t, t.nodes[cur].right, key)

RBTSearch(t, key) == RBTSearchFrom(t, t.root, key)

(***************************************************************************)
(* HashTable.  Bucket idx of the code is buckets[idx + 1] here.            *)
(* hashFunction reduces modulo size after every byte, so its accumulator   *)
(* never exceeds (size - 1) * P + 255 and the width of unsigned long       *)
(* plays no part at the bucket counts explored.  With size = 0 the         *)
(* function is undefined: see InsertAll and SearchAll.                     *)
(***************************************************************************)
P == 131

HTNew(tableSize) ==
    [size |-> tableSize,
     buckets |-> [i \in 1..tableSize |-> <<>>],
     collisionCount |-> 0]

RECURSIVE HashFrom(_, _, _)
HashFrom(h, key, size) ==
    IF key = <<>> THEN h
    ELSE HashFrom((h * P + Head(key)) % size, Tail(key), size)

\* hashFunction as it would be with the loop variable a signed char: a byte
\* above 127 enters the unsigned 64-bit sum as 2^64 + c - 256
RECURSIVE TwoToThe(_, _)
TwoToThe(e, m) == IF e = 0 THEN 1 % m ELSE (2 * TwoToThe(e - 1, m)) % m

RECURSIVE HashFromSigned(_, _, _)
HashFromSigned(h, key, size) ==
    IF key = <<>> THEN h
    ELSE LET c == IF Head(key) > 127 THEN Head(key) - 256 ELSE Head(key)
             v == h * P + c
         IN  HashFromSigned(IF v >= 0 THEN v % size
                            ELSE (TwoToThe(64, size) + v) % size,
                            Tail(key), size)

hashFunctionSignedChar(h, key) == HashFromSigned(0, key, h.size)

hashFunction(h, key) == HashFrom(0, key, h.size)

\* HTInsert as it would be with the record put at the front of the chain
HTInsertFront(h, obj) ==
    LET idx == hashFunction(h, obj.name) + 1
    IN  [h EXCEPT !.collisionCount =
                      IF h.buckets[idx] # <<>> THEN @ + 1 ELSE @,
                  !.buckets[idx] = <<obj>> \o @]

\* HTInsert as it would be if only records of other keys counted
HTInsertOtherKeys(h, obj) ==
    LET idx == hashFunction(h, obj.name) + 1
    IN  [h EXCEPT !.collisionCount =
                      IF \E i \in 1..Len(h.buckets[idx]) :
                             h.buckets[idx][i].name # obj.name
                      THEN @ + 1 ELSE @,
                  !.buckets[idx] = Append(@, obj)]

HTInsert(h, obj) ==
    LET idx == hashFunction(h, obj.name) + 1
    IN  [h EXCEPT !.collisionCount =
                      IF h.buckets[idx] # <<>> THEN @ + 1 ELSE @,
                  !.buckets[idx] = Append(@, obj)]

RECURSIVE FilterName(_, _)
FilterName(bucket, key) ==
    IF bucket = <<>> THEN <<>>
    ELSE IF Head(bucket).name = key
         THEN <<Head(bucket)>> \o FilterName(Tail(bucket), key)
         ELSE FilterName(Tail(bucket), key)

\* HTSearch as it would be without the comparison of names
HTSearchWholeBucket(h, key) == h.buckets[hashFunction(h, key) + 1]

HTSearch(h, key) == FilterName(h.buckets[hashFunction(h, key) + 1], key)

getCollisionCount(h) == h.collisionCount

(***************************************************************************)
(* The program: main() constructs the three structures, inserts every      *)
(* record into each of them and then searches keys in each of them.        *)
(***************************************************************************)
\* seen[k]: what the latest search of k returned, NoRes when k was not
\* searched since the latest insert
NoRes == [key |-> <<>>, found |-> FALSE]

\* what an operation with undefined behaviour may do to the process
UBOutcomes == {"trapped", "corrupted"}

Names(d) == [i \in 1..Len(d) |-> d[i].name]

IsAscending(s) == \A i \in 1..(Len(s) - 1) : StrLess(s[i], s[i + 1])

IsDescending(s) == \A i \in 1..(Len(s) - 1) : StrLess(s[i + 1], s[i])

\* the record sequences explored
InputAllowed(d, key) ==
    \/ /\ Len(d) < MaxRecords
       /\ key \in Keys
       /\ \A i \in 1..Len(d) : d[i].name \in Keys
    \/ /\ key \in SortedKeys
       /\ \A i \in 1..Len(d) : d[i].name \in SortedKeys
       /\ \/ IsAscending(Append(Names(d), key))
          \/ IsDescending(Append(Names(d), key))

Init ==
    /\ data = <<>>
    /\ bst = BSTEmpty
    /\ rbt = RBTEmpty
    /\ ht = HTNew(0)
    /\ status = "unbuilt"
    /\ seen = [k \in SearchKeys |-> NoRes]

\* BinarySearchTree bst; RedBlackTree rbt; HashTable hashTable(tableSize);
Construct(tableSize) ==
    /\ status = "unbuilt"
    /\ bst' = BSTEmpty
    /\ rbt' = RBTEmpty
    /\ ht' = HTNew(tableSize)
    /\ status' = "ok"
    /\ UNCHANGED <<data, seen>>

\* one pass of the insertion loop of main.  hashTable.insert on a table of
\* zero buckets divides by zero in hashFunction (or, for the empty key,
\* indexes a bucket that does not exist): undefined behaviour.
InsertAll(key) ==
    /\ status = "ok"
    /\ InputAllowed(data, key)
    /\ LET o == Object(Len(data) + 1, key)
       IN  /\ data' = Append(data, o)
           /\ bst' = BSTInsert(bst, o)
           /\ rbt' = RBTInsert(rbt, o)
           /\ IF ht.size = 0
              THEN /\ status' \in UBOutcomes
                   /\ ht' = ht
              ELSE /\ ht' = HTInsert(ht, o)
                   /\ status' = status
    /\ seen' = [k \in SearchKeys |-> NoRes]

\* SearchAll as it would be if the hash table counted, at a search, the
\* records of other keys it passes in the chain
SearchAllCounting(key) ==
    /\ status = "ok"
    /\ Len(data) <= MaxSearchRecords
    /\ ht.size >= 1
    /\ seen' = [seen EXCEPT ![key] =
                    [key |-> key, found |-> TRUE,
                     r1 |-> linearSearch(data, key),
                     r2 |-> BSTSearch(bst, key),
                     r3 |-> RBTSearch(rbt, key),
                     r4 |-> HTSearch(ht, key)]]
    /\ ht' = [ht EXCEPT !.collisionCount =
                  @ + Len(ht.buckets[hashFunction(ht, key) + 1])
                    - Len(HTSearch(ht, key))]
    /\ UNCHANGED <<data, bst, rbt, status>>

\* one pass of the search loop of main: the four searches of one key
SearchAll(key) ==
    /\ status = "ok"
    /\ Len(data) <= MaxSearchRecords
    /\ IF ht.size = 0
       THEN /\ status' \in UBOutcomes
            /\ seen' = seen
       ELSE /\ seen' = [seen EXCEPT ![key] =
                           [key |-> key, found |-> TRUE,
                            r1 |-> linearSearch(data, key),
                            r2 |-> BSTSearch(bst, key),
                            r3 |-> RBTSearch(rbt, key),
                            r4 |-> HTSearch(ht, key)]]
            /\ status' = status
    /\ UNCHANGED <<data, bst, rbt, ht>>

Next ==
    \/ \E tableSize \in 0..MaxBuckets : Construct(tableSize)
    \/ \E key \in AllKeys : InsertAll(key)
    \/ \E key \in SearchKeys : SearchAll(key)

Spec == Init /\ [][Next]_vars

(***************************************************************************)
(* Observations of a tree, for the properties below.  The walks carry a    *)
(* fuel of one step per node of the arena, which is enough for any tree    *)
(* and keeps them finite on any linking.                                   *)
(***************************************************************************)
RECURSIVE Subtree(_, _, _)
Subtree(nodes, n, fuel) ==
    IF n = NULL \/ fuel = 0 THEN {}
    ELSE {n} \cup Subtree(nodes, nodes[n].left, fuel - 1)
             \cup Subtree(nodes, nodes[n].right, fuel - 1)

TreeNodes(t) == Subtree(t.nodes, t.root, Len(t.nodes))

RECURSIVE Depth(_, _, _)
Depth(nodes, n, fuel) ==
    IF n = NULL \/ fuel = 0 THEN 0
    ELSE LET l == Depth(nodes, nodes[n].left, fuel - 1)
             r == Depth(nodes, nodes[n].right, fuel - 1)
         IN  1 + (IF l < r THEN r ELSE l)

\* number of nodes on the longest path from the root to a nil child
Height(t) == Depth(t.nodes, t.root, Len(t.nodes))

\* number of BLACK nodes on every path from n to nil, -1 when paths differ
RECURSIVE BlackHeight(_, _, _)
BlackHeight(nodes, n, fuel) ==
    IF n = NULL THEN 0
    ELSE IF fuel = 0 THEN -1
    ELSE LET l == BlackHeight(nodes, nodes[n].left, fuel - 1)
             r == BlackHeight(nodes, nodes[n].right, fuel - 1)
         IN  IF l = -1 \/ r = -1 \/ l # r THEN -1
             ELSE l + (IF nodes[n].color = BLACK THEN 1 ELSE 0)

Ordered(t) ==
    \A n \in TreeNodes(t) :
        /\ \A m \in Subtree(t.nodes, t.nodes[n].left, Len(t.nodes)) :
               StrLess(t.nodes[m].key, t.nodes[n].key)
        /\ \A m \in Subtree(t.nodes, t.nodes[n].right, Len(t.nodes)) :
               StrLess(t.nodes[n].key, t.nodes[m].key)

NameSet(d) == {d[i].name : i \in 1..Len(d)}

\* the keys looked up in a state: the keys inserted and the first NumKeys
\* keys, inserted or not
ProbeKeys == Keys \cup NameSet(data)

\* the records inserted with name k, in insertion order
InsertedWith(k) == SelectSeq(data, LAMBDA o : o.name = k)

IdCount(s, id) == Cardinality({i \in 1..Len(s) : s[i].id = id})

SameIds(s1, s2) ==
    /\ Len(s1) = Len(s2)
    /\ \A i \in 1..Len(s1) : IdCount(s1, s1[i].id) = IdCount(s2, s1[i].id)

NonEmptyBuckets(h) == {i \in 1..h.size : h.buckets[i] # <<>>}

Pow2(n) == 2 ^ n

(***************************************************************************)
(* C1: after every insert the red-black tree has a BLACK root, no RED node *)
(* with a RED child, and the same number of BLACK nodes on every path from *)
(* the root to a nil child.                                                *)
(***************************************************************************)
C1_RedBlackInvariants ==
    /\ rbt.root # NULL => rbt.nodes[rbt.root].color = BLACK
    /\ \A n \in TreeNodes(rbt) :
           rbt.nodes[n].color = RED =>
               /\ rbt.nodes[n].left # NULL =>
                      rbt.nodes[rbt.nodes[n].left].color = BLACK
               /\ rbt.nodes[n].right # NULL =>
                      rbt.nodes[rbt.nodes[n].right].color = BLACK
    /\ BlackHeight(rbt.nodes, rbt.root, Len(rbt.nodes)) # -1

\* an insert whose fixup recoloured, moved up and then rotated
C1_Witness ==
    /\ rbt.iters >= 2
    /\ rbt.rotations >= 1
    /\ Cardinality(TreeNodes(rbt)) >= 8

(***************************************************************************)
(* C2: in both trees every key of a node's left subtree is smaller than    *)
(* the node's key, every key of its right subtree greater.                 *)
(***************************************************************************)
C2_BSTOrdering == Ordered(bst) /\ Ordered(rbt)

\* an insert into the red-black tree that made both rotations
C2_Witness ==
    /\ rbt.rotations = 2
    /\ Cardinality(TreeNodes(rbt)) >= 5
    /\ \E n \in TreeNodes(bst) :
           bst.nodes[n].left # NULL /\ bst.nodes[n].right # NULL

(***************************************************************************)
(* C3: in each structure search(k) returns the records inserted with name  *)
(* k, all of them, each once per insert, in insertion order, no other.     *)
(***************************************************************************)
C3_SearchExact ==
    \A k \in ProbeKeys :
        /\ BSTSearch(bst, k) = InsertedWith(k)
        /\ RBTSearch(rbt, k) = InsertedWith(k)
        /\ ht.size >= 1 => HTSearch(ht, k) = InsertedWith(k)

\* a key inserted twice with a record of another key between the two,
\* the other key in the same bucket
C3_Witness ==
    /\ ht.size >= 1
    /\ \E i, j, l \in 1..Len(data) :
           /\ i < j /\ j < l
           /\ data[i].name = data[l].name
           /\ data[j].name # data[i].name
           /\ hashFunction(ht, data[j].name) = hashFunction(ht, data[i].name)

(***************************************************************************)
(* C4: for every key the four searches return the same multiset of ids.    *)
(***************************************************************************)
C4_CrossEquivalence ==
    ht.size >= 1 =>
        \A k \in ProbeKeys :
            LET r1 == linearSearch(data, k)
            IN  /\ SameIds(r1, BSTSearch(bst, k))
                /\ SameIds(r1, RBTSearch(rbt, k))
                /\ SameIds(r1, HTSearch(ht, k))

\* one key found twice, another key not inserted
C4_Witness ==
    /\ ht.size >= 1
    /\ \E k \in AllKeys : Len(linearSearch(data, k)) >= 2
    /\ \E k \in AllKeys : k \notin NameSet(data)
    /\ Cardinality(NameSet(data)) >= 3

(***************************************************************************)
(* C5: no HashTable with zero buckets is ever constructed.                 *)
(***************************************************************************)
C5_ZeroBucketsRejected == status = "ok" => ht.size >= 1

(***************************************************************************)
(* C6: getCollisionCount() is the number of inserts minus the number of    *)
(* non-empty buckets.                                                      *)
(***************************************************************************)
C6_CollisionCount ==
    ht.size >= 1 =>
        getCollisionCount(ht) = Len(data) - Cardinality(NonEmptyBuckets(ht))

\* k >= 3 inserts all in one bucket of two, the first two with the same
\* key: k - 1 collisions
C6_Witness ==
    /\ ht.size = 2
    /\ \E i \in 1..2 :
           /\ Len(ht.buckets[i]) = Len(data)
           /\ Len(data) >= 3
           /\ ht.buckets[i][1].name = ht.buckets[i][2].name
           /\ ht.buckets[i][3].name # ht.buckets[i][1].name
    /\ getCollisionCount(ht) = Len(data) - 1

(***************************************************************************)
(* C7: in both trees no two nodes hold the same key, and the number of     *)
(* nodes is the number of distinct names inserted.                         *)
(***************************************************************************)
C7_UniqueKeys ==
    /\ \A a, b \in 1..Len(bst.nodes) :
           a # b => bst.nodes[a].key # bst.nodes[b].key
    /\ \A a, b \in 1..Len(rbt.nodes) :
           a # b => rbt.nodes[a].key # rbt.nodes[b].key
    /\ Len(bst.nodes) = Cardinality(NameSet(data))
    /\ Len(rbt.nodes) = Cardinality(NameSet(data))
    /\ Cardinality(TreeNodes(bst)) = Cardinality(NameSet(data))
    /\ Cardinality(TreeNodes(rbt)) = Cardinality(NameSet(data))

\* records named a, b, a: 2 nodes in each tree
C7_Witness ==
    /\ Names(data) = << <<97>>, <<98>>, <<97>> >>
    /\ Len(bst.nodes) = 2
    /\ Len(rbt.nodes) = 2

(***************************************************************************)
(* C8: a search with a key that matches no inserted record returns the     *)
(* empty sequence, the hash table looking into a bucket that exists.       *)
(***************************************************************************)
C8_NotFoundEmpty ==
    \A k \in ProbeKeys :
        k \notin NameSet(data) =>
            /\ BSTSearch(bst, k) = <<>>
            /\ RBTSearch(rbt, k) = <<>>
            /\ ht.size >= 1 =>
                   /\ hashFunction(ht, k) + 1 \in DOMAIN ht.buckets
                   /\ HTSearch(ht, k) = <<>>

\* the empty string is not inserted and its bucket is not empty
C8_Witness ==
    /\ ht.size >= 1
    /\ <<>> \notin NameSet(data)
    /\ ht.buckets[hashFunction(ht, <<>>) + 1] # <<>>
    /\ Len(rbt.nodes) >= 3

C10_LogDepth ==
    /\ LET n == Cardinality(TreeNodes(rbt))
           h == Height(rbt)
       IN  Pow2(h) <= (n + 1) * (n + 1)
    /\ (IsAscending(Names(data)) \/ IsDescending(Names(data))) =>
           Height(bst) = Len(data)

\* 8 keys in increasing order: the chain is beyond the bound, the
\* red-black tree within it
C10_Witness ==
    /\ IsAscending(Names(data))
    /\ Len(data) >= 8
    /\ Pow2(Height(bst)) > (Len(data) + 1) * (Len(data) + 1)
    /\ Height(rbt) <= 5

(***************************************************************************)
(* C11: an insert of a record whose name is already a key of the           *)
(* red-black tree appends the record to the values of the node with that   *)
(* key and changes nothing else: same root, same nodes, same links and     *)
(* colours, same values elsewhere, no node constructed, insertFix not run. *)
(***************************************************************************)
C11_DuplicateInsertFrame ==
    [][(/\ Len(data') = Len(data) + 1
        /\ data'[Len(data')].name \in NameSet(data)) =>
           /\ rbt'.root = rbt.root
           /\ Len(rbt'.nodes) = Len(rbt.nodes)
           /\ \A i \in 1..Len(rbt.nodes) :
                  rbt'.nodes[i] =
                      IF rbt.nodes[i].key = data'[Len(data')].name
                      THEN [rbt.nodes[i] EXCEPT
                               !.values = Append(@, data'[Len(data')])]
                      ELSE rbt.nodes[i]
           /\ ~rbt'.fixRan
           /\ rbt'.rotations = 0
           /\ rbt'.created = "NONE"]_vars

\* the latest record went to a RED node that is not the root and holds
\* two records now, in a tree of at least 4 nodes
C11_Witness ==
    /\ Len(data) >= 5
    /\ Len(rbt.nodes) >= 4
    /\ ~rbt.fixRan
    /\ \E n \in 1..Len(rbt.nodes) :
           /\ rbt.nodes[n].key = data[Len(data)].name
           /\ Len(rbt.nodes[n].values) = 2
           /\ rbt.nodes[n].color = RED

\* number of visits of a walk over the child links from n
RECURSIVE Visits(_, _, _)
Visits(nodes, n, fuel) ==
    IF n = NULL \/ fuel = 0 THEN 0
    ELSE 1 + Visits(nodes, nodes[n].left, fuel - 1)
           + Visits(nodes, nodes[n].right, fuel - 1)

(***************************************************************************)
(* C12: in the red-black tree the root has no parent, every child names    *)
(* the node above it as its parent, and every node ever constructed is     *)
(* reached from the root exactly once (a walk one level deeper than the    *)
(* number of nodes visits each node once: no node lost, none shared, no    *)
(* cycle).                                                                 *)
(***************************************************************************)
C12_ParentLinks ==
    /\ rbt.root # NULL => rbt.nodes[rbt.root].parent = NULL
    /\ \A x \in 1..Len(rbt.nodes) :
           /\ rbt.nodes[x].left # NULL =>
                  rbt.nodes[rbt.nodes[x].left].parent = x
           /\ rbt.nodes[x].right # NULL =>
                  rbt.nodes[rbt.nodes[x].right].parent = x
    /\ Subtree(rbt.nodes, rbt.root, Len(rbt.nodes) + 1) = 1..Len(rbt.nodes)
    /\ Visits(rbt.nodes, rbt.root, Len(rbt.nodes) + 1) = Len(rbt.nodes)

\* a rotation below the root that moved a non-empty inner subtree (the
\* second pass of the fixup, keys in decreasing order)
C12_Witness ==
    /\ IsDescending(Names(data))
    /\ rbt.rotations = 1
    /\ rbt.iters = 2
    /\ \E x \in 1..Len(rbt.nodes) :
           /\ rbt.nodes[x].parent # NULL
           /\ rbt.nodes[x].left # NULL
           /\ rbt.nodes[x].right # NULL
           /\ rbt.nodes[rbt.nodes[x].left].left # NULL

\* the (key, values) pairs of the subtree of n, left to right
RECURSIVE InOrder(_, _, _)
InOrder(nodes, n, fuel) ==
    IF n = NULL \/ fuel = 0 THEN <<>>
    ELSE InOrder(nodes, nodes[n].left, fuel - 1)
         \o << <<nodes[n].key, nodes[n].values>> >>
         \o InOrder(nodes, nodes[n].right, fuel - 1)

InOrderOf(t) == InOrder(t.nodes, t.root, Len(t.nodes))

Colours(t) == [i \in 1..Len(t.nodes) |-> t.nodes[i].color]

(***************************************************************************)
(* C13: on every reachable red-black tree and at every node x with a right *)
(* child, rotateLeft(x) keeps the in-order sequence of (key, values) and   *)
(* every colour, promotes the right child above x, and rotateRight at the  *)
(* promoted node gives back the root and all links; rotateRight(x) at      *)
(* every node x with a left child keeps the in-order sequence and every    *)
(* colour and promotes the left child.                                     *)
(***************************************************************************)
C13_RotationShapeOnly ==
    \A x \in 1..Len(rbt.nodes) :
        /\ rbt.nodes[x].right # NULL =>
               LET y == rbt.nodes[x].right
                   r == rotateLeft(rbt, x)
                   back == rotateRight(r, y)
               IN  /\ InOrderOf(r) = InOrderOf(rbt)
                   /\ Colours(r) = Colours(rbt)
                   /\ r.nodes[y].left = x
                   /\ r.nodes[x].parent = y
                   /\ ~r.nullDeref
                   /\ back.root = rbt.root
                   /\ back.nodes = rbt.nodes
        /\ rbt.nodes[x].left # NULL =>
               LET y == rbt.nodes[x].left
                   r == rotateRight(rbt, x)
               IN  /\ InOrderOf(r) = InOrderOf(rbt)
                   /\ Colours(r) = Colours(rbt)
                   /\ r.nodes[y].right = x
                   /\ r.nodes[x].parent = y
                   /\ ~r.nullDeref

\* a node below the root whose right child has a left subtree: the
\* rotation relinks the node above x, x, the promoted child and the
\* subtree that changes sides
C13_Witness ==
    \E x \in 1..Len(rbt.nodes) :
        /\ rbt.nodes[x].parent # NULL
        /\ rbt.nodes[x].right # NULL
        /\ rbt.nodes[x].left # NULL
        /\ rbt.nodes[rbt.nodes[x].right].left # NULL

(***************************************************************************)
(* C14: no insert into the red-black tree dereferences a null pointer:     *)
(* the grandparent exists whenever the loop body of insertFix runs, the    *)
(* parent and grandparent read again after the inner rotation exist, and   *)
(* rotateLeft and rotateRight find the child they promote.                 *)
(***************************************************************************)
C14_NoNullDeref == ~rbt.nullDeref

\* one pass of the loop that made the inner rotation, read parent and
\* grandparent again and rotated at the grandparent, which was the root:
\* the new node is the root now
C14_Witness ==
    /\ rbt.fixRan
    /\ rbt.iters = 1
    /\ rbt.rotations = 2
    /\ rbt.root = Len(rbt.nodes)
    /\ ~rbt.nullDeref

\* number of nodes the descent for key visits from cur, up to an equal key
\* or a nil child; -1 when it has not ended after fuel nodes
RECURSIVE DescentSteps(_, _, _, _)
DescentSteps(nodes, cur, key, fuel) ==
    IF cur = NULL THEN 0
    ELSE IF fuel = 0 THEN -1
    ELSE IF key = nodes[cur].key THEN 1
    ELSE LET d == DescentSteps(nodes,
                               IF StrLess(key, nodes[cur].key)
                               THEN nodes[cur].left ELSE nodes[cur].right,
                               key, fuel - 1)
         IN  IF d = -1 THEN -1 ELSE d + 1

\* the node below which the descent for an absent key links the new node
RECURSIVE AttachParent(_, _, _, _)
AttachParent(nodes, cur, parent, key) ==
    IF cur = NULL THEN parent
    ELSE AttachParent(nodes,
                      IF StrLess(key, nodes[cur].key)
                      THEN nodes[cur].left ELSE nodes[cur].right,
                      cur, key)

\* number of nodes from n up to the root, along the parent links
RECURSIVE NodeDepth(_, _, _)
NodeDepth(nodes, n, fuel) ==
    IF n = NULL \/ fuel = 0 THEN 0
    ELSE 1 + NodeDepth(nodes, nodes[n].parent, fuel - 1)

\* the loop of insertFix from (t, n) ends within fuel passes, a pass with a
\* RED uncle moving n two levels up, a pass with a BLACK or absent uncle
\* making one or two rotations and leaving n at the root or below a BLACK
\* parent
RECURSIVE FixTerminates(_, _, _)
FixTerminates(t, n, fuel) ==
    IF n = t.root THEN TRUE
    ELSE IF t.nodes[n].parent = NULL THEN FALSE
    ELSE IF t.nodes[t.nodes[n].parent].color # RED THEN TRUE
    ELSE IF fuel = 0 THEN FALSE
    ELSE LET p == t.nodes[n].parent
             g == t.nodes[p].parent
         IN  IF g = NULL THEN FALSE
             ELSE LET u == IF p = t.nodes[g].left THEN t.nodes[g].right
                           ELSE t.nodes[g].left
                      b == InsertFixBody(t, n)
                  IN  IF b.tree.nullDeref THEN FALSE
                      ELSE IF u # NULL /\ t.nodes[u].color = RED
                      THEN /\ b.tree.rotations = t.rotations
                           /\ NodeDepth(b.tree.nodes, b.n, Len(t.nodes))
                                  = NodeDepth(t.nodes, n, Len(t.nodes)) - 2
                           /\ FixTerminates(b.tree, b.n, fuel - 1)
                      ELSE /\ b.tree.rotations - t.rotations \in {1, 2}
                           /\ \/ b.n = b.tree.root
                              \/ b.tree.nodes[b.tree.nodes[b.n].parent].color
                                     = BLACK

(***************************************************************************)
(* C15: every insert terminates.  The descent for any key ends at an equal *)
(* key or a nil child after at most as many nodes as the tree is high, in  *)
(* both trees; the insert that led here made at most 2 rotations and at    *)
(* most one pass of the fixup loop per two levels; and for every key not   *)
(* in the red-black tree the fixup of its new node ends, RED-uncle passes  *)
(* climbing two levels, the BLACK-uncle pass being the last.               *)
(***************************************************************************)
C15_InsertTerminates ==
    /\ rbt.rotations <= 2
    /\ 2 * rbt.iters <= Height(rbt)
    /\ LET hb == Height(bst)
           hr == Height(rbt)
           present == NameSet(data)
       IN  \A k \in ProbeKeys :
               /\ DescentSteps(bst.nodes, bst.root, k, Len(bst.nodes)) \in 0..hb
               /\ DescentSteps(rbt.nodes, rbt.root, k, Len(rbt.nodes)) \in 0..hr
               /\ (k \notin present /\ rbt.root # NULL) =>
                      LET par == AttachParent(rbt.nodes, rbt.root, NULL, k)
                          a == RBTAttach([rbt EXCEPT !.rotations = 0], par,
                                         Object(Len(data) + 1, k))
                      IN  FixTerminates(a, Len(rbt.nodes) + 1,
                                        Len(rbt.nodes) + 1)

\* keys in increasing order: the descent of the binary search tree passes
\* every node, and the latest fixup recoloured, climbed and then rotated
C15_Witness ==
    /\ IsAscending(Names(data))
    /\ Height(bst) = Len(data)
    /\ rbt.iters = 2
    /\ rbt.rotations = 1

\* the value of the recurrence h = 0; h = (h * 131 + b) mod m after the
\* first i bytes of key
RECURSIVE HashRec(_, _, _)
HashRec(key, i, m) ==
    IF i = 0 THEN 0 ELSE (HashRec(key, i - 1, m) * 131 + key[i]) % m

\* the largest value h * 131 + b formed on the way
RECURSIVE HashPeak(_, _, _)
HashPeak(key, i, m) ==
    IF i = 0 THEN 0
    ELSE LET v == HashRec(key, i - 1, m) * 131 + key[i]
             w == HashPeak(key, i - 1, m)
         IN  IF v < w THEN w ELSE v

\* the smallest and the largest bucket count of the harness
MinHarnessSize == 100

MaxHarnessSize == 1000000

\* v < 2^32, for v >= 0
FitsIn32Bits(v) == v \div 4 < 2 ^ 30

(***************************************************************************)
(* C16: for every key and every bucket count m >= 1 (the table's own and   *)
(* the harness's smallest and largest) hashFunction returns the value of   *)
(* the recurrence h = 0; h = (h*131 + b) mod m over the bytes as unsigned  *)
(* values, 0 for the empty key, a value in 0..m-1; no value h*131 + b on   *)
(* the way exceeds (m-1)*131 + 255, which for m = 1,000,000 is below 2^32; *)
(* every record lies in the bucket its name hashes to, and every key       *)
(* hashes to a bucket that exists.                                         *)
(***************************************************************************)
C16_HashFunction ==
    /\ \A m \in (IF ht.size >= 1 THEN {ht.size} ELSE {})
                    \cup {MinHarnessSize, MaxHarnessSize} :
           \A k \in ProbeKeys :
               LET h == hashFunction([size |-> m], k)
               IN  /\ h = HashRec(k, Len(k), m)
                   /\ h \in 0..(m - 1)
                   /\ k = <<>> => h = 0
                   /\ HashPeak(k, Len(k), m) <= (m - 1) * 131 + 255
    /\ FitsIn32Bits((MaxHarnessSize - 1) * 131 + 255)
    /\ ht.size >= 1 =>
           /\ \A k \in ProbeKeys :
                  hashFunction(ht, k) + 1 \in DOMAIN ht.buckets
           /\ \A i \in 1..ht.size :
                  \A j \in 1..Len(ht.buckets[i]) :
                      hashFunction(ht, ht.buckets[i][j].name) + 1 = i

\* two buckets, both in use, the empty key and a key with a byte above
\* 127 inserted
C16_Witness ==
    /\ ht.size = 2
    /\ ht.buckets[1] # <<>>
    /\ ht.buckets[2] # <<>>
    /\ <<>> \in NameSet(data)
    /\ \E i \in 1..Len(data) :
           \E j \in 1..Len(data[i].name) : data[i].name[j] > 127

(***************************************************************************)
(* C17: an insert of a new key into the binary search tree adds one node,  *)
(* without children and holding exactly the inserted record, in place of   *)
(* one nil child link (as the root of an empty tree), and leaves the       *)
(* root, every key, all values and every other child link as they were;    *)
(* keys inserted in strictly increasing order give a chain without left    *)
(* children, of depth n.                                                   *)
(***************************************************************************)
C17_BSTNoRestructuring ==
    [][(/\ Len(data') = Len(data) + 1
        /\ data'[Len(data')].name \notin NameSet(data)) =>
           LET o == data'[Len(data')]
               new == Len(bst.nodes) + 1
               old == 1..Len(bst.nodes)
               changedLeft == {i \in old :
                                  bst'.nodes[i].left # bst.nodes[i].left}
               changedRight == {i \in old :
                                   bst'.nodes[i].right # bst.nodes[i].right}
           IN  /\ Len(bst'.nodes) = new
               /\ bst'.nodes[new] = [key |-> o.name, values |-> <<o>>,
                                     left |-> NULL, right |-> NULL]
               /\ \A i \in old :
                      /\ bst'.nodes[i].key = bst.nodes[i].key
                      /\ bst'.nodes[i].values = bst.nodes[i].values
               /\ bst'.root = IF bst.root = NULL THEN new ELSE bst.root
               /\ Cardinality(changedLeft) + Cardinality(changedRight)
                      = IF bst.root = NULL THEN 0 ELSE 1
               /\ \A i \in changedLeft :
                      bst.nodes[i].left = NULL /\ bst'.nodes[i].left = new
               /\ \A i \in changedRight :
                      bst.nodes[i].right = NULL /\ bst'.nodes[i].right = new
               /\ IsAscending(Names(data')) =>
                      /\ \A i \in 1..new : bst'.nodes[i].left = NULL
                      /\ Height(bst') = Len(data')]_vars

\* the latest record made a new leaf below a node that has both children
\* now, in a tree that holds a node with two records
C17_Witness ==
    /\ Len(data) > Len(bst.nodes)
    /\ bst.nodes[Len(bst.nodes)].values = <<data[Len(data)]>>
    /\ \E i \in 1..Len(bst.nodes) :
           /\ bst.nodes[i].left # NULL
           /\ bst.nodes[i].right # NULL
           /\ Len(bst.nodes) \in {bst.nodes[i].left, bst.nodes[i].right}

\* the latest insert constructed a node: its name is new among the records
LatestIsStructural ==
    /\ data # <<>>
    /\ \A i \in 1..(Len(data) - 1) : data[i].name # data[Len(data)].name

(***************************************************************************)
(* C18 as claimed: every insert into the red-black tree that constructs a  *)
(* node constructs it RED and runs insertFix, and the root is BLACK when   *)
(* it returns, the first insert into an empty tree included (stated of the  *)
(* runs whose hash table has a bucket, where every operation is defined).  *)
(***************************************************************************)
C18_EveryNodeRedAndFixed ==
    (LatestIsStructural /\ status = "ok" /\ ht.size >= 1) =>
        /\ rbt.created = RED
        /\ rbt.fixRan
        /\ rbt.nodes[rbt.root].color = BLACK

(***************************************************************************)
(* C18 amended: an insert that constructs a node in a tree that is not     *)
(* empty constructs it RED and runs insertFix, and the root is BLACK when  *)
(* it returns; the first insert into an empty tree constructs the root     *)
(* BLACK and does not run insertFix; an insert of a present key constructs *)
(* no node and does not run insertFix.                                     *)
(***************************************************************************)
C18_NodeRedAndFixedBelowRoot ==
    /\ (LatestIsStructural /\ Len(data) >= 2) =>
           /\ rbt.created = RED
           /\ rbt.fixRan
           /\ rbt.nodes[rbt.root].color = BLACK
    /\ Len(data) = 1 =>
           /\ rbt.created = BLACK
           /\ ~rbt.fixRan
           /\ rbt.root = 1
           /\ rbt.nodes[rbt.root].color = BLACK
    /\ ~LatestIsStructural =>
           /\ rbt.created = "NONE"
           /\ ~rbt.fixRan

\* the fourth node: the fixup coloured the root RED in its pass (RED
\* uncle, grandparent the root) and BLACK again at its end
C18_Witness ==
    /\ LatestIsStructural
    /\ Len(rbt.nodes) = 4
    /\ rbt.created = RED
    /\ rbt.fixRan
    /\ rbt.iters = 1
    /\ rbt.rotations = 0
    /\ rbt.nodes[rbt.root].color = BLACK

====
